---- MODULE Spec2Model ----
(***************************************************************************)
(* Verification model of the LRU cache of the book review backend:         *)
(* class Node and class LRUCache (src/src/utils/managers/Cosmos.ts,        *)
(* lines 213-350).  The cache is a Map from key to Node plus a doubly      *)
(* linked list of the nodes, newest at head, oldest at tail.  Nodes are    *)
(* heap objects: they are modelled as entries of a node table addressed by *)
(* node ids, and prev/next/head/tail/Map values are node ids or NULL.      *)
(***************************************************************************)
EXTENDS Integers, Sequences, FiniteSets, TLC

\* ------------------------------------------------------------------ bounds
MaxCapacity == 3
NumKeys == 4
MaxValue == 2
NumTasks == 2
NumLockKeys == 3
MaxCalls == 3
NumObservers == 2
MaxRegistered == 3
NumRequests == 2
NumMiddleware == 2

\* --------------------------------------------------------------- universe
NULL == 0
NoKey == "-"
KeyNames == <<"a", "b", "c", "d", "e", "f", "g", "h">>
Keys == {KeyNames[i] : i \in 1..NumKeys}
Values == 1..MaxValue
NodeIds == 1..(NumKeys + 2)
KeyIndex(k) == CHOOSE i \in 1..NumKeys : KeyNames[i] = k

VARIABLES capacity, cache, nodes, head, tail, script, pc, last, stamp, absVal

\* CacheManager (src/unnamed/part_010): the key-to-mutex Map, the mutex
\* objects, the cache operations in flight, and what is recorded about them.
VARIABLES mutexes, locks, tasks, calls, order, lastUpd, cmLast

\* ReviewManager (src/src/utils/managers/ReviewManager.ts): the calls of
\* getReviewById in progress.
VARIABLES callers

\* CacheSubject (src/unnamed/part_010): the observer list, how each
\* observer's methods behave, and the last call made on the subject.
VARIABLES observers, behaviour, busLast

\* RequestHandler (src/unnamed/part_007): the observers of the handler, the
\* httpTrigger invocations in progress, and what each logger observer was told.
VARIABLES rhObservers, req, heard

rhVars == <<rhObservers, req, heard>>
busVars == <<observers, behaviour, busLast, rhVars>>
rmVars == <<callers, observers, behaviour, busLast, rhVars>>
cmVars == <<mutexes, locks, tasks, calls, order, lastUpd, cmLast, callers,
            observers, behaviour, busLast, rhVars>>
lruVars == <<capacity, cache, nodes, head, tail, script, pc, last, stamp, absVal>>
vars == <<capacity, cache, nodes, head, tail, script, pc, last, stamp, absVal,
          mutexes, locks, tasks, calls, order, lastUpd, cmLast, callers,
          observers, behaviour, busLast, rhObservers, req, heard>>

\* ------------------------------------------------------------- class Node
\* A node table slot that holds no object.
FreeNode == [key |-> NoKey, value |-> NULL, prev |-> NULL, next |-> NULL]

\* constructor(key, value): prev and next start as null.
Node(key, value) == [key |-> key, value |-> value, prev |-> NULL, next |-> NULL]

\* The four mutable fields of an LRUCache instance, as one record.
Store == [cache |-> cache, nodes |-> nodes, head |-> head, tail |-> tail]

\* this.cache.size
Size(st) == Cardinality({k \in Keys : st.cache[k] # NULL})

\* Objects reachable from the Map, head and tail through prev/next.
RECURSIVE ReachFrom(_, _, _)
ReachFrom(st, S, n) ==
  LET T == (S \cup {st.nodes[i].prev : i \in S} \cup {st.nodes[i].next : i \in S}) \ {NULL}
  IN  IF n = 0 \/ T = S THEN S ELSE ReachFrom(st, T, n - 1)

Reach(st) ==
  ReachFrom(st, ({st.cache[k] : k \in Keys} \cup {st.head, st.tail}) \ {NULL},
            Cardinality(NodeIds))

\* Unreachable objects are reclaimed: their slots become free.
collect(st) ==
  LET R == Reach(st)
  IN  [st EXCEPT !.nodes = [i \in NodeIds |-> IF i \in R THEN st.nodes[i] ELSE FreeNode]]

\* new Node(...): the identity of a fresh object, one no live reference uses.
alloc(st, key) ==
  LET R == Reach(st)
  IN  IF KeyIndex(key) \notin R THEN KeyIndex(key)
      ELSE CHOOSE i \in NodeIds \ R : \A j \in NodeIds \ R : i <= j

\* --------------------------------------------------------- class LRUCache
\* private remove(node)
remove(st, node) ==
  LET n  == st.nodes[node]
      s1 == IF n.prev # NULL
            THEN [st EXCEPT !.nodes[n.prev].next = n.next]
            ELSE [st EXCEPT !.head = n.next]
      m  == s1.nodes[node]
  IN  IF m.next # NULL
      THEN [s1 EXCEPT !.nodes[m.next].prev = m.prev]
      ELSE [s1 EXCEPT !.tail = m.prev]

\* addToFront that forgets to point the old head back at the new one.
addToFront_noBackLink(st, node) ==
  LET s1 == [st EXCEPT !.nodes[node].next = st.head, !.nodes[node].prev = NULL]
      s3 == [s1 EXCEPT !.head = node]
  IN  IF s3.tail = NULL THEN [s3 EXCEPT !.tail = node] ELSE s3

\* private addToFront(node)
addToFront(st, node) ==
  LET s1 == [st EXCEPT !.nodes[node].next = st.head, !.nodes[node].prev = NULL]
      s2 == IF s1.head # NULL
            THEN [s1 EXCEPT !.nodes[s1.head].prev = node]
            ELSE s1
      s3 == [s2 EXCEPT !.head = node]
  IN  IF s3.tail = NULL THEN [s3 EXCEPT !.tail = node] ELSE s3

\* get that returns the value without moving the entry to the front.
get_noRefresh(st, key) ==
  LET node == st.cache[key]
  IN  IF node = NULL
      THEN [st |-> st, ret |-> NULL]
      ELSE [st |-> st, ret |-> st.nodes[node].value]

\* get that puts the node at the front without unlinking it first.
get_noUnlink(st, key) ==
  LET node == st.cache[key]
  IN  IF node = NULL
      THEN [st |-> st, ret |-> NULL]
      ELSE LET s2 == addToFront(st, node)
           IN  [st |-> s2, ret |-> s2.nodes[node].value]

\* get that remembers a miss by storing a null entry for the key.
get_missInserts(st, key) ==
  LET node == st.cache[key]
  IN  IF node = NULL
      THEN LET newNode == alloc(st, key)
               s0 == [st EXCEPT !.nodes[newNode] = Node(key, NULL)]
           IN  [st |-> [addToFront(s0, newNode) EXCEPT !.cache[key] = newNode],
                ret |-> NULL]
      ELSE LET s2 == addToFront(remove(st, node), node)
           IN  [st |-> s2, ret |-> s2.nodes[node].value]

\* get(key): the store after the call and the returned value.
get(st, key) ==
  LET node == st.cache[key]
  IN  IF node = NULL
      THEN [st |-> st, ret |-> NULL]
      ELSE LET s2 == addToFront(remove(st, node), node)
           IN  [st |-> s2, ret |-> s2.nodes[node].value]

\* put that evicts only when the size is above the capacity.
put_strictBound(st, cap, key, value) ==
  IF st.cache[key] # NULL
  THEN LET node == st.cache[key]
           s1   == [st EXCEPT !.nodes[node].value = value]
       IN  [st |-> addToFront(remove(s1, node), node), evicted |-> NoKey]
  ELSE LET newNode == alloc(st, key)
           s0 == [st EXCEPT !.nodes[newNode] = Node(key, value)]
           ev == Size(s0) > cap /\ s0.tail # NULL
           s1 == IF ev
                 THEN remove([s0 EXCEPT !.cache[s0.nodes[s0.tail].key] = NULL], s0.tail)
                 ELSE s0
           s2 == addToFront(s1, newNode)
       IN  [st |-> [s2 EXCEPT !.cache[key] = newNode],
            evicted |-> IF ev THEN s0.nodes[s0.tail].key ELSE NoKey]

\* put that updates a stored key's value where it stands.
put_keepsPlace(st, cap, key, value) ==
  IF st.cache[key] # NULL
  THEN LET node == st.cache[key]
       IN  [st |-> [st EXCEPT !.nodes[node].value = value], evicted |-> NoKey]
  ELSE LET newNode == alloc(st, key)
           s0 == [st EXCEPT !.nodes[newNode] = Node(key, value)]
           ev == Size(s0) >= cap /\ s0.tail # NULL
           s1 == IF ev
                 THEN remove([s0 EXCEPT !.cache[s0.nodes[s0.tail].key] = NULL], s0.tail)
                 ELSE s0
           s2 == addToFront(s1, newNode)
       IN  [st |-> [s2 EXCEPT !.cache[key] = newNode],
            evicted |-> IF ev THEN s0.nodes[s0.tail].key ELSE NoKey]

\* put that evicts the head, the newest entry, instead of the tail.
put_evictsHead(st, cap, key, value) ==
  IF st.cache[key] # NULL
  THEN LET node == st.cache[key]
           s1   == [st EXCEPT !.nodes[node].value = value]
       IN  [st |-> addToFront(remove(s1, node), node), evicted |-> NoKey]
  ELSE LET newNode == alloc(st, key)
           s0 == [st EXCEPT !.nodes[newNode] = Node(key, value)]
           ev == Size(s0) >= cap /\ s0.head # NULL
           s1 == IF ev
                 THEN remove([s0 EXCEPT !.cache[s0.nodes[s0.head].key] = NULL], s0.head)
                 ELSE s0
           s2 == addToFront(s1, newNode)
       IN  [st |-> [s2 EXCEPT !.cache[key] = newNode],
            evicted |-> IF ev THEN s0.nodes[s0.head].key ELSE NoKey]

\* put that starts evicting one entry before the store is full.
put_evictsOneEarly(st, cap, key, value) ==
  IF st.cache[key] # NULL
  THEN LET node == st.cache[key]
           s1   == [st EXCEPT !.nodes[node].value = value]
       IN  [st |-> addToFront(remove(s1, node), node), evicted |-> NoKey]
  ELSE LET newNode == alloc(st, key)
           s0 == [st EXCEPT !.nodes[newNode] = Node(key, value)]
           ev == Size(s0) >= cap - 1 /\ s0.tail # NULL
           s1 == IF ev
                 THEN remove([s0 EXCEPT !.cache[s0.nodes[s0.tail].key] = NULL], s0.tail)
                 ELSE s0
           s2 == addToFront(s1, newNode)
       IN  [st |-> [s2 EXCEPT !.cache[key] = newNode],
            evicted |-> IF ev THEN s0.nodes[s0.tail].key ELSE NoKey]

\* put that moves a stored key to the front but keeps its old value.
put_keepsOldValue(st, cap, key, value) ==
  IF st.cache[key] # NULL
  THEN LET node == st.cache[key]
       IN  [st |-> addToFront(remove(st, node), node), evicted |-> NoKey]
  ELSE LET newNode == alloc(st, key)
           s0 == [st EXCEPT !.nodes[newNode] = Node(key, value)]
           ev == Size(s0) >= cap /\ s0.tail # NULL
           s1 == IF ev
                 THEN remove([s0 EXCEPT !.cache[s0.nodes[s0.tail].key] = NULL], s0.tail)
                 ELSE s0
           s2 == addToFront(s1, newNode)
       IN  [st |-> [s2 EXCEPT !.cache[key] = newNode],
            evicted |-> IF ev THEN s0.nodes[s0.tail].key ELSE NoKey]

\* put that inserts the new entry first and evicts the tail afterwards.
put_evictAfterInsert(st, cap, key, value) ==
  IF st.cache[key] # NULL
  THEN LET node == st.cache[key]
           s1   == [st EXCEPT !.nodes[node].value = value]
       IN  [st |-> addToFront(remove(s1, node), node), evicted |-> NoKey]
  ELSE LET newNode == alloc(st, key)
           s0 == [st EXCEPT !.nodes[newNode] = Node(key, value)]
           s1 == addToFront(s0, newNode)
           s2 == [s1 EXCEPT !.cache[key] = newNode]
           ev == Size(s2) >= cap /\ s2.tail # NULL
       IN  [st |-> IF ev
                   THEN remove([s2 EXCEPT !.cache[s2.nodes[s2.tail].key] = NULL], s2.tail)
                   ELSE s2,
            evicted |-> IF ev THEN s2.nodes[s2.tail].key ELSE NoKey]

\* put(key, value): the store after the call and the key it evicted, if any.
put(st, cap, key, value) ==
  IF st.cache[key] # NULL
  THEN LET node == st.cache[key]
           s1   == [st EXCEPT !.nodes[node].value = value]
       IN  [st |-> addToFront(remove(s1, node), node), evicted |-> NoKey]
  ELSE LET newNode == alloc(st, key)
           s0 == [st EXCEPT !.nodes[newNode] = Node(key, value)]
           ev == Size(s0) >= cap /\ s0.tail # NULL
           s1 == IF ev
                 THEN remove([s0 EXCEPT !.cache[s0.nodes[s0.tail].key] = NULL], s0.tail)
                 ELSE s0
           s2 == addToFront(s1, newNode)
       IN  [st |-> [s2 EXCEPT !.cache[key] = newNode],
            evicted |-> IF ev THEN s0.nodes[s0.tail].key ELSE NoKey]

\* delete that drops the key from the Map and leaves its node in the list.
delete_indexOnly(st, key) ==
  LET node == st.cache[key]
  IN  IF node # NULL
      THEN [st EXCEPT !.cache[key] = NULL]
      ELSE st

\* delete that blanks the node's value and keeps the node.
delete_tombstone(st, key) ==
  LET node == st.cache[key]
  IN  IF node # NULL
      THEN [st EXCEPT !.nodes[node].value = NULL]
      ELSE st

\* delete(key)
delete(st, key) ==
  LET node == st.cache[key]
  IN  IF node # NULL
      THEN [remove(st, node) EXCEPT !.cache[key] = NULL]
      ELSE st

\* ------------------------------------------------ reading the linked list
\* The node ids met walking from a node in one direction, at most n of them.
RECURSIVE Walk(_, _, _, _)
Walk(st, from, forward, n) ==
  IF from = NULL \/ n = 0 THEN <<>>
  ELSE <<from>> \o Walk(st, IF forward THEN st.nodes[from].next ELSE st.nodes[from].prev,
                        forward, n - 1)

WalkBound == Cardinality(NodeIds) + 1
Fwd(st) == Walk(st, st.head, TRUE, WalkBound)
Bwd(st) == Walk(st, st.tail, FALSE, WalkBound)
Reverse(s) == [i \in 1..Len(s) |-> s[Len(s) + 1 - i]]

\* The list from head to tail as entries, and as keys.
Entries(st) == [i \in 1..Len(Fwd(st)) |->
                  [key |-> st.nodes[Fwd(st)[i]].key, value |-> st.nodes[Fwd(st)[i]].value]]
ListKeys(st) == [i \in 1..Len(Fwd(st)) |-> st.nodes[Fwd(st)[i]].key]
Without(L, k) == SelectSeq(L, LAMBDA e : e.key # k)
StoredKeys(st) == {k \in Keys : st.cache[k] # NULL}

\* -------------------------------------------- abstract recency model
\* stamp[k] is the rank of the time of the most recent successful access of
\* k among the stored keys (1 = oldest), 0 when k is not stored; absVal[k]
\* is the value of the latest put of a stored key, NULL when not stored.
Normalise(s) ==
  [k \in Keys |-> IF s[k] = 0 THEN 0
                  ELSE Cardinality({j \in Keys : s[j] > 0 /\ s[j] <= s[k]})]
Touch(s, k) == Normalise([s EXCEPT ![k] = NumKeys + 1])
AbsStored(v) == {k \in Keys : v[k] # NULL}
Oldest(s) == CHOOSE k \in Keys : s[k] > 0 /\ \A j \in Keys : s[j] > 0 => s[k] <= s[j]
AbsVictim(s, v, cap, k) ==
  IF v[k] = NULL /\ Cardinality(AbsStored(v)) >= cap /\ AbsStored(v) # {}
  THEN Oldest(s) ELSE NoKey
\* Stored keys by most recent access, most recent first.
RECURSIVE ByRecency(_)
ByRecency(s) ==
  IF \A k \in Keys : s[k] = 0 THEN <<>>
  ELSE LET k == CHOOSE j \in Keys : \A i \in Keys : s[i] <= s[j]
       IN  <<k>> \o ByRecency([s EXCEPT ![k] = 0])

\* ----------------------------------------------------------- call scripts
Op(op, key, value) == [op |-> op, key |-> key, value |-> value]
ScenarioB(a, b, c, d) ==
  << Op("put", a, 1), Op("put", b, 2), Op("put", c, 3), Op("get", a, NULL),
     Op("put", d, 4),
     Op("get", a, NULL), Op("get", b, NULL), Op("get", c, NULL), Op("get", d, NULL) >>
ScenariosB ==
  {ScenarioB(a, b, c, d) : <<a, b, c, d>> \in
     {q \in Keys \X Keys \X Keys \X Keys : Cardinality({q[1], q[2], q[3], q[4]}) = 4}}
\* Scenario A for capacity c: c + 1 distinct keys are put in order, the i-th
\* with value i, and then each is looked up in the same order.
ScenarioA(ks) ==
  [i \in 1..(2 * Len(ks)) |->
     IF i <= Len(ks) THEN Op("put", ks[i], i) ELSE Op("get", ks[i - Len(ks)], NULL)]
ScenariosA(c) ==
  IF c + 1 > NumKeys THEN {}
  ELSE {ScenarioA(ks) : ks \in {q \in [1..(c + 1) -> Keys] :
                                   \A i, j \in 1..(c + 1) : i # j => q[i] # q[j]}}
\* Scenario C on key x: put(x,10); delete(x); get(x); put(x,20); get(x).
ScenarioC(x) ==
  << Op("put", x, 10), Op("delete", x, NULL), Op("get", x, NULL),
     Op("put", x, 20), Op("get", x, NULL) >>
ScenariosC == {ScenarioC(x) : x \in Keys}
ScriptValues == 1..(MaxCapacity + 1) \cup {10, 20}

\* A call is issued freely when no script runs, else it is the script's next.
Issued(op, key, value) ==
  IF script = <<>> THEN value \in Values \cup {NULL}
  ELSE pc <= Len(script) /\ script[pc] = Op(op, key, value)

\* The record of the latest call: its arguments, whether the key was in the
\* Map when it started (hit), what it returned and evicted, what the abstract
\* model returns and evicts for it, the value a put replaced (old), and
\* whether the call just before it was a put or a delete of the same key (after).
NoCall == [op |-> "none", key |-> NoKey, value |-> NULL, hit |-> FALSE, ret |-> NULL,
           absRet |-> NULL, evicted |-> NoKey, absEvicted |-> NoKey, old |-> NULL,
           after |-> "other"]
\* "put" when the call just before was a put of this key, "delete" when it was
\* a delete of this key that found it in the Map.
After(op, key) ==
  IF last.key = key /\ last.op = op /\ (op = "delete" => last.hit) THEN op ELSE "other"

Install(st) ==
  /\ cache' = st.cache
  /\ nodes' = st.nodes
  /\ head' = st.head
  /\ tail' = st.tail

\* ------------------------------------------------------ class CacheManager
Tasks == 1..NumTasks
LockKeys == {KeyNames[i] : i \in 1..NumLockKeys}
MutexIds == 1..(NumLockKeys + NumTasks)

\* new Mutex(): nobody holds it and nobody waits for it.
Mutex == [holder |-> NULL, queue |-> <<>>]
IdleTask == [pc |-> "idle", op |-> "none", key |-> NoKey, value |-> NULL, mutex |-> NULL,
             waited |-> FALSE]
NoTask == [task |-> NULL, op |-> "none", key |-> NoKey, value |-> NULL, ret |-> NULL,
           evicted |-> NoKey, inOrder |-> TRUE, waited |-> FALSE, threw |-> FALSE]

\* The mutex objects something still refers to: the Map or a pending operation.
LiveMutexes(mx, ts) ==
  ({mx[k] : k \in Keys} \cup {ts[t].mutex : t \in Tasks}) \ {NULL}
sweep(mx, lk, ts) ==
  [m \in MutexIds |-> IF m \in LiveMutexes(mx, ts) THEN lk[m] ELSE Mutex]
newMutex(mx, ts, key) ==
  IF KeyIndex(key) \notin LiveMutexes(mx, ts) THEN KeyIndex(key)
  ELSE CHOOSE m \in MutexIds \ LiveMutexes(mx, ts) :
         \A n \in MutexIds \ LiveMutexes(mx, ts) : m <= n

\* getMutexForKey that hands every key the mutex made first.
getMutexForKey_oneForAll(mx, ts, key) ==
  IF mx[key] # NULL THEN [mutexes |-> mx, mutex |-> mx[key], fresh |-> FALSE]
  ELSE IF \E k \in Keys : mx[k] # NULL
  THEN LET m == mx[CHOOSE k \in Keys : mx[k] # NULL]
       IN  [mutexes |-> [mx EXCEPT ![key] = m], mutex |-> m, fresh |-> FALSE]
  ELSE LET m == newMutex(mx, ts, key)
       IN  [mutexes |-> [mx EXCEPT ![key] = m], mutex |-> m, fresh |-> TRUE]

\* getMutexForKey that makes a new mutex on every call.
getMutexForKey_alwaysNew(mx, ts, key) ==
  LET m == newMutex(mx, ts, key)
  IN  [mutexes |-> [mx EXCEPT ![key] = m], mutex |-> m, fresh |-> TRUE]

\* private getMutexForKey(key): the Map afterwards and the mutex returned.
getMutexForKey(mx, ts, key) ==
  IF mx[key] = NULL
  THEN LET m == newMutex(mx, ts, key)
       IN  [mutexes |-> [mx EXCEPT ![key] = m], mutex |-> m, fresh |-> TRUE]
  ELSE [mutexes |-> mx, mutex |-> mx[key], fresh |-> FALSE]

\* mutex.acquire() by task t: the lock is taken at once when free, else t
\* joins the queue of waiters.
acquire(lk, t) ==
  IF lk.holder = NULL THEN [lk EXCEPT !.holder = t]
  ELSE [lk EXCEPT !.queue = Append(@, t)]

\* A release() that frees the lock without waking the first waiter.
release_wakesNobody(lk) == [lk EXCEPT !.holder = NULL]

\* release(): the lock passes to the first waiter, if any.
release(lk) ==
  IF lk.queue = <<>> THEN [lk EXCEPT !.holder = NULL]
  ELSE [holder |-> Head(lk.queue), queue |-> Tail(lk.queue)]

\* The finally block that runs release() only when the store call returned.
finally_onlyOnReturn(lk, threw) == IF threw THEN lk ELSE release(lk)

\* finally { release() }: runs whether the store call returned or threw.
finally(lk, threw) == release(lk)

\* An updateCacheItem whose store call reads instead of writing.
storeCall_updateReads(st, cap, op, key, value) ==
  IF op = "get" \/ op = "update"
  THEN [st |-> get(st, key).st, ret |-> get(st, key).ret, evicted |-> NoKey]
  ELSE [st |-> delete(st, key), ret |-> NULL, evicted |-> NoKey]

\* The store call inside the try block of each of the three methods.
storeCall(st, cap, op, key, value) ==
  IF op = "get"
  THEN [st |-> get(st, key).st, ret |-> get(st, key).ret, evicted |-> NoKey]
  ELSE IF op = "update"
  THEN [st |-> put(st, cap, key, value).st, ret |-> NULL,
        evicted |-> put(st, cap, key, value).evicted]
  ELSE [st |-> delete(st, key), ret |-> NULL, evicted |-> NoKey]

\* A call of getReviewById that has not started.
IdleCaller == [pc |-> "idle", key |-> NoKey, task |-> NULL, ret |-> NULL,
               reads |-> 0, expectHit |-> FALSE, error |-> "none",
               removing |-> FALSE, sawRecord |-> FALSE]

\* ------------------------------------------------------ class CacheSubject
Observers == 1..NumObservers

\* How an observer's updateCacheItem/invalidateCacheItem behaves when called:
\* it succeeds, it is an async method that fails (a rejected promise, as for
\* CacheManager), or it is a plain method that throws.
Behaviours == {"ok", "rejects", "throws"}

NoNotify == [op |-> "none", observer |-> NULL, key |-> NoKey, data |-> NULL,
             before |-> <<>>, called |-> <<>>, outcome |-> "none", unhandled |-> 0]

\* addObserver that puts the observer first.
addObserver_unshift(obs, o) == <<o>> \o obs

\* addObserver(observer): this.observers.push(observer)
addObserver(obs, o) == Append(obs, o)

\* this.observers.indexOf(observer), 0 for -1
indexOf(obs, o) ==
  IF \E i \in 1..Len(obs) : obs[i] = o
  THEN CHOOSE i \in 1..Len(obs) : obs[i] = o /\ \A j \in 1..(i - 1) : obs[j] # o
  ELSE 0

\* removeObserver(observer): splice(index, 1) when index !== -1
removeObserver(obs, o) ==
  IF indexOf(obs, o) = 0 THEN obs
  ELSE SubSeq(obs, 1, indexOf(obs, o) - 1) \o SubSeq(obs, indexOf(obs, o) + 1, Len(obs))

\* A dispatch loop that walks the list from its end.
dispatch_backwards(obs, beh) ==
  LET rev == Reverse(obs)
      stop == IF \E i \in 1..Len(rev) : beh[rev[i]] = "throws"
              THEN CHOOSE i \in 1..Len(rev) :
                     beh[rev[i]] = "throws" /\ \A j \in 1..(i - 1) : beh[rev[j]] # "throws"
              ELSE 0
      called == IF stop = 0 THEN rev ELSE SubSeq(rev, 1, stop)
  IN  [called |-> called,
       outcome |-> IF stop = 0 THEN "returned" ELSE "threw",
       unhandled |-> Cardinality({i \in 1..Len(called) : beh[called[i]] = "rejects"})]

\* for (const observer of this.observers) observer.<method>(...): the
\* observers called, how the loop ends, and the rejected promises left behind
\* (the calls are not awaited and the loop has no try/catch).
dispatch(obs, beh) ==
  LET stop == IF \E i \in 1..Len(obs) : beh[obs[i]] = "throws"
              THEN CHOOSE i \in 1..Len(obs) :
                     beh[obs[i]] = "throws" /\ \A j \in 1..(i - 1) : beh[obs[j]] # "throws"
              ELSE 0
      called == IF stop = 0 THEN obs ELSE SubSeq(obs, 1, stop)
  IN  [called |-> called,
       outcome |-> IF stop = 0 THEN "returned" ELSE "threw",
       unhandled |-> Cardinality({i \in 1..Len(called) : beh[called[i]] = "rejects"})]

\* ----------------------------------------------------- class RequestHandler
Requests == 1..NumRequests

\* An httpTrigger invocation that has not started. index is the closure
\* variable of that name, response the closure variable ("none" while
\* unassigned); handler tells whether errorHandler.run is running and
\* whether something awaits it; the remaining fields count what happened.
IdleRequest ==
  [pc |-> "idle", index |-> 0, response |-> "none", handler |-> "none",
   started |-> 0, received |-> 0, sent |-> 0, errors |-> 0, result |-> "none",
   registered |-> FALSE, sentWhileHandling |-> FALSE, earlyMiddleware |-> FALSE,
   via |-> "none", ran |-> <<>>]

\* for (const observer of this.observers) observer.on...(...) for an event
\* of request r: every logger observer in the list is told.
tell(obs, hd, event, r) ==
  [o \in Requests |->
     IF \E i \in 1..Len(obs) : obs[i] = o THEN hd[o] \cup {<<event, r>>} ELSE hd[o]]

RHIdle ==
  /\ rhObservers = <<>>
  /\ req = [r \in Requests |-> IdleRequest]
  /\ heard = [r \in Requests |-> {}]

BusIdle ==
  /\ RHIdle
  /\ observers = <<>>
  /\ behaviour = [o \in Observers |-> "ok"]
  /\ busLast = NoNotify

CMIdle ==
  /\ BusIdle
  /\ callers = [c \in Tasks |-> IdleCaller]
  /\ mutexes = [k \in Keys |-> NULL]
  /\ locks = [m \in MutexIds |-> Mutex]
  /\ tasks = [t \in Tasks |-> IdleTask]
  /\ calls = 0
  /\ order = [k \in Keys |-> <<>>]
  /\ lastUpd = [k \in Keys |-> NULL]
  /\ cmLast = NoTask

Init ==
  /\ cache = [k \in Keys |-> NULL]
  /\ nodes = [i \in NodeIds |-> FreeNode]
  /\ head = NULL
  /\ tail = NULL
  /\ \/ script = <<>> /\ capacity \in 1..MaxCapacity
     \/ script \in ScenariosB /\ capacity = 3
     \/ capacity \in 1..MaxCapacity /\ script \in ScenariosA(capacity)
  /\ pc = 1
  /\ last = NoCall
  /\ stamp = [k \in Keys |-> 0]
  /\ absVal = [k \in Keys |-> NULL]
  /\ CMIdle

Get(key) ==
  /\ Issued("get", key, NULL)
  /\ LET r == get(Store, key)
     IN  /\ Install(collect(r.st))
         /\ last' = [NoCall EXCEPT !.op = "get", !.key = key, !.hit = (cache[key] # NULL),
                                   !.ret = r.ret, !.absRet = absVal[key],
                                   !.value = IF After("put", key) = "put" THEN last.value
                                             ELSE NULL,
                                   !.after = After("put", key)]
  /\ stamp' = IF absVal[key] # NULL THEN Touch(stamp, key) ELSE stamp
  /\ pc' = IF script = <<>> THEN pc ELSE pc + 1
  /\ UNCHANGED <<capacity, script, absVal>>
  /\ UNCHANGED cmVars

Put(key, value) ==
  /\ Issued("put", key, value)
  /\ value # NULL
  /\ LET r == put(Store, capacity, key, value)
         victim == AbsVictim(stamp, absVal, capacity, key)
     IN  /\ Install(collect(r.st))
         /\ last' = [NoCall EXCEPT !.op = "put", !.key = key, !.value = value,
                                   !.hit = (cache[key] # NULL),
                                   !.evicted = r.evicted, !.absEvicted = victim,
                                   !.old = IF cache[key] # NULL THEN nodes[cache[key]].value
                                           ELSE NULL]
         /\ absVal' = [k \in Keys |-> IF k = key THEN value
                                      ELSE IF k = victim THEN NULL ELSE absVal[k]]
         /\ stamp' = Touch([k \in Keys |-> IF k = victim THEN 0 ELSE stamp[k]], key)
  /\ pc' = IF script = <<>> THEN pc ELSE pc + 1
  /\ UNCHANGED <<capacity, script>>
  /\ UNCHANGED cmVars

Delete(key) ==
  /\ Issued("delete", key, NULL)
  /\ Install(collect(delete(Store, key)))
  /\ last' = [NoCall EXCEPT !.op = "delete", !.key = key, !.hit = (cache[key] # NULL),
                            !.after = After("delete", key)]
  /\ absVal' = [absVal EXCEPT ![key] = NULL]
  /\ stamp' = Normalise([stamp EXCEPT ![key] = 0])
  /\ pc' = IF script = <<>> THEN pc ELSE pc + 1
  /\ UNCHANGED <<capacity, script>>
  /\ UNCHANGED cmVars

Next ==
  \/ \E key \in Keys : Get(key)
  \/ \E key \in Keys, value \in Values \cup ScriptValues : Put(key, value)
  \/ \E key \in Keys : Delete(key)

Spec == Init /\ [][Next]_vars

\* The constructor stores whatever number it is given: the stores that can be
\* constructed, with capacities from -1 up.
InitAnyCapacity ==
  /\ cache = [k \in Keys |-> NULL]
  /\ nodes = [i \in NodeIds |-> FreeNode]
  /\ head = NULL
  /\ tail = NULL
  /\ script = <<>>
  /\ capacity \in (0 - 1)..MaxCapacity
  /\ pc = 1
  /\ last = NoCall
  /\ stamp = [k \in Keys |-> 0]
  /\ absVal = [k \in Keys |-> NULL]
  /\ CMIdle

SpecAnyCapacity == InitAnyCapacity /\ [][Next]_vars

\* The store a new LRUCache becomes by putting the entries of L, last first,
\* so that it holds L from head to tail.
EmptyStore == [cache |-> [k \in Keys |-> NULL], nodes |-> [i \in NodeIds |-> FreeNode],
               head |-> NULL, tail |-> NULL]
RECURSIVE Built(_, _)
Built(L, cap) ==
  IF L = <<>> THEN EmptyStore
  ELSE collect(put(Built(Tail(L), cap), cap, Head(L).key, Head(L).value).st)
StartLists(cap) ==
  UNION {{q \in [1..n -> [key : Keys, value : Values]] :
            \A i, j \in 1..n : i # j => q[i].key # q[j].key} : n \in 0..cap}

\* Scenario C started on any store that puts can build.
InitC ==
  /\ capacity \in 1..MaxCapacity
  /\ CMIdle
  /\ script \in ScenariosC
  /\ pc = 1
  /\ last = NoCall
  /\ \E L \in StartLists(capacity) :
       /\ cache = Built(L, capacity).cache
       /\ nodes = Built(L, capacity).nodes
       /\ head = Built(L, capacity).head
       /\ tail = Built(L, capacity).tail
       /\ stamp = [k \in Keys |->
                     IF \E i \in 1..Len(L) : L[i].key = k
                     THEN Len(L) + 1 - (CHOOSE i \in 1..Len(L) : L[i].key = k)
                     ELSE 0]
       /\ absVal = [k \in Keys |->
                      IF \E i \in 1..Len(L) : L[i].key = k
                      THEN L[CHOOSE i \in 1..Len(L) : L[i].key = k].value
                      ELSE NULL]

SpecC == InitC /\ [][Next]_vars

\* ------------------------------------------- CacheManager operations
\* A new operation takes the lowest idle task.
FreeTask(t) ==
  /\ tasks[t].pc = "idle"
  /\ \A u \in Tasks : u < t => tasks[u].pc # "idle"
  /\ calls < MaxCalls

Pending(key) == {t \in Tasks : tasks[t].pc # "idle" /\ tasks[t].key = key}

\* The part of a method that runs when it is called, up to its await:
\* getMutexForKey(key).acquire().
Enter(t, op, key, value) ==
  /\ FreeTask(t)
  /\ LET g  == getMutexForKey(mutexes, tasks, key)
         lk == acquire(locks[g.mutex], t)
         ts == [tasks EXCEPT ![t] = [pc |-> IF lk.holder = t THEN "granted" ELSE "waiting",
                                     op |-> op, key |-> key, value |-> value,
                                     mutex |-> g.mutex, waited |-> lk.holder # t]]
     IN  /\ mutexes' = g.mutexes
         /\ tasks' = ts
         /\ locks' = sweep(g.mutexes, [locks EXCEPT ![g.mutex] = lk], ts)
  /\ calls' = calls + 1
  /\ order' = [order EXCEPT ![key] = Append(@, t)]
  /\ lastUpd' = IF op = "update" THEN [lastUpd EXCEPT ![key] = value]
                ELSE IF op = "invalidate" THEN [lastUpd EXCEPT ![key] = NULL]
                ELSE lastUpd
  /\ UNCHANGED <<cmLast>>
  /\ UNCHANGED lruVars

\* public async getCacheItem(key), up to the await
GetCacheItem(t, key) == Enter(t, "get", key, NULL) /\ UNCHANGED rmVars

\* public async updateCacheItem(key, data), up to the await; the data of
\* the n-th call is n
UpdateCacheItem(t, key) == Enter(t, "update", key, calls + 1) /\ UNCHANGED rmVars

\* public async invalidateCacheItem(key), up to the await
InvalidateCacheItem(t, key) == Enter(t, "invalidate", key, NULL) /\ UNCHANGED rmVars

\* The tasks once t has run its finally block: t is done and the waiter that
\* release() handed the lock to, if any, has its acquire() resolved.
handOver(t, threw) ==
  LET lk == finally(locks[tasks[t].mutex], threw)
  IN  [u \in Tasks |->
         IF u = t THEN IdleTask
         ELSE IF tasks[u].mutex = tasks[t].mutex /\ lk.holder = u
              THEN [tasks[u] EXCEPT !.pc = "granted"]
              ELSE tasks[u]]

\* The rest of a method once its acquire() has resolved: the store call in
\* the try block and release() in the finally block, with no await between.
Leave(t, threw) ==
  /\ tasks[t].pc = "granted"
  /\ LET me == tasks[t]
         r  == IF threw THEN [st |-> Store, ret |-> NULL, evicted |-> NoKey]
               ELSE storeCall(Store, capacity, me.op, me.key, me.value)
         lk == finally(locks[me.mutex], threw)
         ts == handOver(t, threw)
     IN  /\ Install(collect(r.st))
         /\ tasks' = ts
         /\ locks' = sweep(mutexes, [locks EXCEPT ![me.mutex] = lk], ts)
         /\ cmLast' = [task |-> t, op |-> me.op, key |-> me.key, value |-> me.value,
                       ret |-> r.ret, evicted |-> r.evicted,
                       inOrder |-> (order[me.key] # <<>> /\ Head(order[me.key]) = t),
                       waited |-> me.waited, threw |-> threw]
         /\ order' = [order EXCEPT ![me.key] = SelectSeq(@, LAMBDA u : u # t)]
         /\ lastUpd' = [k \in Keys |->
                          IF k = r.evicted /\
                             ~\E u \in Pending(k) \ {t} : tasks[u].op = "update"
                          THEN NULL ELSE lastUpd[k]]
  /\ UNCHANGED <<mutexes, calls>>
  /\ UNCHANGED <<capacity, script, pc, last, stamp, absVal>>

\* A method finishes whose caller does not use the result.
Awaited(t) ==
  \E c \in Tasks : callers[c].pc \in {"awaitCache", "awaitInvalidate", "awaitBook"}
                   /\ callers[c].task = t
Resume(t) == ~Awaited(t) /\ Leave(t, FALSE) /\ UNCHANGED rmVars
ResumeThrows(t) == ~Awaited(t) /\ Leave(t, TRUE) /\ UNCHANGED rmVars

\* A CacheManager over an empty cache, with a capacity that lets puts evict.
InitCM ==
  /\ cache = [k \in Keys |-> NULL]
  /\ nodes = [i \in NodeIds |-> FreeNode]
  /\ head = NULL
  /\ tail = NULL
  /\ script = <<>>
  /\ capacity \in 1..(NumLockKeys - 1)
  /\ pc = 1
  /\ last = NoCall
  /\ stamp = [k \in Keys |-> 0]
  /\ absVal = [k \in Keys |-> NULL]
  /\ CMIdle

NextCM ==
  \/ \E t \in Tasks, key \in LockKeys : GetCacheItem(t, key)
  \/ \E t \in Tasks, key \in LockKeys : UpdateCacheItem(t, key)
  \/ \E t \in Tasks, key \in LockKeys : InvalidateCacheItem(t, key)
  \/ \E t \in Tasks : Resume(t)

SpecCM == InitCM /\ [][NextCM]_vars

\* What a Resume(t) step does to the tasks; no other step of NextCM takes
\* a granted task to its end.
Continue(t) == ~Awaited(t) /\ tasks[t].pc = "granted" /\ tasks' = handOver(t, FALSE)

\* The event loop runs the continuation of every resolved acquire(): a method
\* whose lock was granted is resumed eventually.
FairCM == \A t \in Tasks : WF_tasks(Continue(t))

InitCMFair == InitCM /\ capacity = 1

\* The methods called on two keys only, so that calls meet on a key's lock.
ContendedKeys == {KeyNames[1], KeyNames[2]}

NextCMFair ==
  \/ \E t \in Tasks, key \in ContendedKeys : GetCacheItem(t, key)
  \/ \E t \in Tasks, key \in ContendedKeys : UpdateCacheItem(t, key)
  \/ \E t \in Tasks, key \in ContendedKeys : InvalidateCacheItem(t, key)
  \/ \E t \in Tasks : Resume(t)

SpecCMFair == InitCMFair /\ [][NextCMFair]_vars /\ FairCM

\* The same with store calls that may throw.
NextCMThrows ==
  \/ NextCM
  \/ \E t \in Tasks : ResumeThrows(t)

\* A throwing store call leaves the store alone, so one capacity is enough.
InitCMThrows == InitCM /\ capacity = 1

SpecCMThrows == InitCMThrows /\ [][NextCMThrows]_vars

\* --------------------------------------- ReviewManager.getReviewById
\* The review a read of the container returns.
Resource == 1

\* const cachedReview = await instance.cacheManager.getCacheItem(cacheKey):
\* the call, up to the await inside getCacheItem.
\* The key is stored, or an update of it has been published and waits to run.
Published(key) ==
  \/ cache[key] # NULL
  \/ \E u \in Pending(key) : tasks[u].op = "update"

\* A failure of the container read as the catch blocks pass it on:
\* Cosmos.read and getReviewById both rethrow the error they caught.
rethrow_asHttpError(error) == "HttpError"
rethrow(error) == error

\* The record of the key is gone from the container: a removeReview of it
\* has had its Cosmos.delete answered.
Deleted(key) ==
  \E c \in Tasks : /\ callers[c].removing /\ callers[c].key = key
                   /\ callers[c].pc \in {"awaitInvalidate", "removed"}

Lookup(c, t, key) ==
  /\ callers[c].pc = "idle"
  /\ Enter(t, "get", key, NULL)
  /\ callers' = [callers EXCEPT ![c] = [IdleCaller EXCEPT !.pc = "awaitCache", !.key = key,
                                                           !.task = t,
                                                           !.expectHit = Published(key)]]
  /\ UNCHANGED busVars

\* getCacheItem finishes and resolves the caller's await with its result.
CacheAnswers(c) ==
  /\ callers[c].pc = "awaitCache"
  /\ tasks[callers[c].task].pc = "granted"
  /\ Leave(callers[c].task, FALSE)
  /\ callers' = [callers EXCEPT ![c] = [@ EXCEPT !.pc = "gotCache", !.task = NULL,
                                         !.ret = get(Store, callers[c].key).ret]]
  /\ UNCHANGED busVars

\* if (cachedReview) return cachedReview
ReturnCached(c) ==
  /\ callers[c].pc = "gotCache"
  /\ callers[c].ret # NULL
  /\ callers' = [callers EXCEPT ![c] = [@ EXCEPT !.pc = "returned"]]
  /\ UNCHANGED <<mutexes, locks, tasks, calls, order, lastUpd, cmLast>>
  /\ UNCHANGED busVars
  /\ UNCHANGED lruVars

\* else: await Cosmos.read(CONTAINER_ID_REVIEWS, reviewId) is issued
ReadContainer(c) ==
  /\ callers[c].pc = "gotCache"
  /\ callers[c].ret = NULL
  /\ callers' = [callers EXCEPT ![c] = [@ EXCEPT !.pc = "reading", !.reads = @ + 1,
                                         !.sawRecord = ~Deleted(callers[c].key)]]
  /\ UNCHANGED <<mutexes, locks, tasks, calls, order, lastUpd, cmLast>>
  /\ UNCHANGED busVars
  /\ UNCHANGED lruVars

\* The read returns a resource, which it can when the record was there as
\* the read was issued: notifyCacheUpdate(cacheKey, review) calls
\* updateCacheItem without awaiting it, and the review is returned.
ReadFound(c, t) ==
  /\ callers[c].pc = "reading"
  /\ callers[c].sawRecord
  /\ Enter(t, "update", callers[c].key, Resource)
  /\ callers' = [callers EXCEPT ![c] = [@ EXCEPT !.pc = "returned", !.ret = Resource]]
  /\ UNCHANGED busVars

\* The read returns nothing: HttpError 404 is thrown.
ReadNotFound(c) ==
  /\ callers[c].pc = "reading"
  /\ callers' = [callers EXCEPT ![c] = [@ EXCEPT !.pc = "threw", !.error = rethrow("HttpError404")]]
  /\ UNCHANGED <<mutexes, locks, tasks, calls, order, lastUpd, cmLast>>
  /\ UNCHANGED busVars
  /\ UNCHANGED lruVars

\* The read itself fails: the error is logged and thrown on.
ReadFails(c) ==
  /\ callers[c].pc = "reading"
  /\ callers' = [callers EXCEPT ![c] = [@ EXCEPT !.pc = "threw", !.error = rethrow("ReadError")]]
  /\ UNCHANGED <<mutexes, locks, tasks, calls, order, lastUpd, cmLast>>
  /\ UNCHANGED busVars
  /\ UNCHANGED lruVars

\* A published updateCacheItem runs; a call still waiting for the cache can
\* no longer count on a key this update evicts.
UpdateRuns(t) ==
  /\ ~Awaited(t)
  /\ Leave(t, FALSE)
  /\ LET out == storeCall(Store, capacity, tasks[t].op, tasks[t].key, tasks[t].value).evicted
     IN  callers' = [c \in Tasks |->
                       IF callers[c].key = out /\ callers[c].pc = "awaitCache"
                       THEN [callers[c] EXCEPT !.expectHit = FALSE] ELSE callers[c]]
  /\ UNCHANGED busVars

NextRM ==
  \/ \E c \in Tasks, t \in Tasks, key \in LockKeys : Lookup(c, t, key)
  \/ \E c \in Tasks : CacheAnswers(c)
  \/ \E c \in Tasks : ReturnCached(c)
  \/ \E c \in Tasks : ReadContainer(c)
  \/ \E c \in Tasks, t \in Tasks : ReadFound(c, t)
  \/ \E c \in Tasks : ReadNotFound(c)
  \/ \E c \in Tasks : ReadFails(c)
  \/ \E t \in Tasks : UpdateRuns(t)

SpecRM == InitCM /\ [][NextRM]_vars

\* ------------------------------------------------ ReviewManager.removeReview
\* How many CacheManager calls a run with a removal may make.
MaxRemovalCalls == 5

\* removeReview(reviewId) up to the await inside the getCacheItem of its
\* `await ReviewManager.getReviewById(reviewId)`; the getReviewById actions
\* take that call to its return or its throw, which removeReview rethrows.
RemoveReview(c, t, key) ==
  /\ callers[c].pc = "idle"
  /\ \A d \in Tasks : ~callers[d].removing
  /\ Enter(t, "get", key, NULL)
  /\ callers' = [callers EXCEPT ![c] = [IdleCaller EXCEPT !.pc = "awaitCache", !.key = key,
                                                           !.task = t, !.removing = TRUE,
                                                           !.expectHit = Published(key)]]
  /\ UNCHANGED busVars

\* getReviewById returned the review: await Cosmos.delete(...) is issued
DeleteIssued(c) ==
  /\ callers[c].removing
  /\ callers[c].pc = "returned"
  /\ callers' = [callers EXCEPT ![c] = [@ EXCEPT !.pc = "deleting"]]
  /\ UNCHANGED <<mutexes, locks, tasks, calls, order, lastUpd, cmLast>>
  /\ UNCHANGED busVars
  /\ UNCHANGED lruVars

\* The delete is answered, the record is gone, and
\* await instance.cacheManager.invalidateCacheItem(cacheKey) is called.
DeleteDone(c, t) ==
  /\ callers[c].pc = "deleting"
  /\ Enter(t, "invalidate", callers[c].key, NULL)
  /\ callers' = [callers EXCEPT ![c] = [@ EXCEPT !.pc = "awaitInvalidate", !.task = t]]
  /\ UNCHANGED busVars

\* Cosmos.delete fails: the catch block logs the error and throws it on.
DeleteFails(c) ==
  /\ callers[c].pc = "deleting"
  /\ callers' = [callers EXCEPT ![c] = [@ EXCEPT !.pc = "threw", !.error = rethrow("DeleteError")]]
  /\ UNCHANGED <<mutexes, locks, tasks, calls, order, lastUpd, cmLast>>
  /\ UNCHANGED busVars
  /\ UNCHANGED lruVars

\* invalidateCacheItem finishes and removeReview returns.
InvalidateAnswers(c) ==
  /\ callers[c].pc = "awaitInvalidate"
  /\ tasks[callers[c].task].pc = "granted"
  /\ Leave(callers[c].task, FALSE)
  /\ callers' = [callers EXCEPT ![c] = [@ EXCEPT !.pc = "removed", !.task = NULL]]
  /\ UNCHANGED busVars

\* A ReviewManager over an empty cache of capacity 1; the call count starts
\* low enough for MaxRemovalCalls calls.
InitRV ==
  /\ cache = [k \in Keys |-> NULL]
  /\ nodes = [i \in NodeIds |-> FreeNode]
  /\ head = NULL
  /\ tail = NULL
  /\ script = <<>>
  /\ capacity = 1
  /\ pc = 1
  /\ last = NoCall
  /\ stamp = [k \in Keys |-> 0]
  /\ absVal = [k \in Keys |-> NULL]
  /\ BusIdle
  /\ callers = [c \in Tasks |-> IdleCaller]
  /\ mutexes = [k \in Keys |-> NULL]
  /\ locks = [m \in MutexIds |-> Mutex]
  /\ tasks = [t \in Tasks |-> IdleTask]
  /\ calls = MaxCalls - MaxRemovalCalls
  /\ order = [k \in Keys |-> <<>>]
  /\ lastUpd = [k \in Keys |-> NULL]
  /\ cmLast = NoTask

\* The reviews asked for and removed are those of two keys.
NextRV ==
  \/ \E c \in Tasks, t \in Tasks, key \in ContendedKeys : Lookup(c, t, key)
  \/ \E c \in Tasks : CacheAnswers(c)
  \/ \E c \in Tasks : ReturnCached(c)
  \/ \E c \in Tasks : ReadContainer(c)
  \/ \E c \in Tasks, t \in Tasks : ReadFound(c, t)
  \/ \E c \in Tasks : ReadNotFound(c)
  \/ \E c \in Tasks : ReadFails(c)
  \/ \E t \in Tasks : UpdateRuns(t)
  \/ \E c \in Tasks, t \in Tasks, key \in ContendedKeys : RemoveReview(c, t, key)
  \/ \E c \in Tasks : DeleteIssued(c)
  \/ \E c \in Tasks, t \in Tasks : DeleteDone(c, t)
  \/ \E c \in Tasks : DeleteFails(c)
  \/ \E c \in Tasks : InvalidateAnswers(c)

SpecRV == InitRV /\ [][NextRV]_vars

\* ------------------------------------------------------ class BookManager
\* const cachedBook = instance.cacheManager.getCacheItem(cacheKey), with no
\* await: cachedBook is the promise of getCacheItem, which is truthy, so
\* `if (cachedBook) return cachedBook` always returns it and the call ends
\* with whatever getCacheItem yields; the else branch never runs.
BookLookup(c, t, key) ==
  /\ callers[c].pc = "idle"
  /\ Enter(t, "get", key, NULL)
  /\ callers' = [callers EXCEPT ![c] = [IdleCaller EXCEPT !.pc = "awaitCache", !.key = key,
                                                           !.task = t]]
  /\ UNCHANGED busVars

\* getCacheItem finishes; its result is the result of getBookById.
BookAnswers(c) ==
  /\ callers[c].pc = "awaitCache"
  /\ tasks[callers[c].task].pc = "granted"
  /\ Leave(callers[c].task, FALSE)
  /\ callers' = [callers EXCEPT ![c] = [@ EXCEPT !.pc = "returned", !.task = NULL,
                                         !.ret = get(Store, callers[c].key).ret]]
  /\ UNCHANGED busVars

\* createBook: await Cosmos.create(CONTAINER_ID_BOOKS, bookData) is issued
CreateStarts(c) ==
  /\ callers[c].pc = "idle"
  /\ callers' = [callers EXCEPT ![c] = [IdleCaller EXCEPT !.pc = "creating"]]
  /\ UNCHANGED <<mutexes, locks, tasks, calls, order, lastUpd, cmLast>>
  /\ UNCHANGED busVars
  /\ UNCHANGED lruVars

\* The create returns the resource: notifyCacheUpdate('book_' + book.id, book)
\* calls updateCacheItem without awaiting it, and the book is returned. The
\* book of the n-th cache call is n.
CreateDone(c, t, key) ==
  /\ callers[c].pc = "creating"
  /\ Enter(t, "update", key, calls + 1)
  /\ callers' = [callers EXCEPT ![c] = [@ EXCEPT !.pc = "returned", !.key = key,
                                         !.ret = calls + 1]]
  /\ UNCHANGED busVars

\* The create fails (CosmosDbError) or returns nothing (HttpError 500).
CreateFails(c, error) ==
  /\ callers[c].pc = "creating"
  /\ callers' = [callers EXCEPT ![c] = [@ EXCEPT !.pc = "threw", !.error = error]]
  /\ UNCHANGED <<mutexes, locks, tasks, calls, order, lastUpd, cmLast>>
  /\ UNCHANGED busVars
  /\ UNCHANGED lruVars

NextBM ==
  \/ \E c \in Tasks, t \in Tasks, key \in LockKeys : BookLookup(c, t, key)
  \/ \E c \in Tasks : BookAnswers(c)
  \/ \E c \in Tasks : CreateStarts(c)
  \/ \E c \in Tasks, t \in Tasks, key \in LockKeys : CreateDone(c, t, key)
  \/ \E c \in Tasks, error \in {"CosmosDbError", "HttpError500"} : CreateFails(c, error)
  \/ \E t \in Tasks : Resume(t)

SpecBM == InitCM /\ [][NextBM]_vars

\* ------------------------------------------------ ReviewManager.createReview
\* createReview(reviewData) up to the await inside the getCacheItem that
\* `await BookManager.getBookById(reviewData.bookId)` calls; key is the book's
\* cache key and exists says whether the container holds the book, which it
\* does when createBook has published it.
CreateReview(c, t, key, exists) ==
  /\ callers[c].pc = "idle"
  /\ Published(key) => exists
  /\ Enter(t, "get", key, NULL)
  /\ callers' = [callers EXCEPT ![c] = [IdleCaller EXCEPT !.pc = "awaitBook", !.key = key,
                                                           !.task = t, !.sawRecord = exists]]
  /\ UNCHANGED busVars

\* getBookById resolves with the result of getCacheItem:
\* if (!book) throw new HttpError(404, 'Book not found'), which the catch
\* block throws on; else await Cosmos.create(CONTAINER_ID_REVIEWS, ...) is issued.
BookArrives(c) ==
  /\ callers[c].pc = "awaitBook"
  /\ tasks[callers[c].task].pc = "granted"
  /\ Leave(callers[c].task, FALSE)
  /\ LET book == get(Store, callers[c].key).ret
     IN  callers' = [callers EXCEPT ![c] =
           IF book = NULL
           THEN [@ EXCEPT !.pc = "threw", !.task = NULL,
                          !.error = rethrow("HttpError404:Book not found")]
           ELSE [@ EXCEPT !.pc = "creatingReview", !.task = NULL, !.ret = book]]
  /\ UNCHANGED busVars

\* The create returns the resource: the review is published to the review
\* cache (a CacheManager of ReviewManager, not the book cache kept here) and
\* returned.
ReviewCreated(c) ==
  /\ callers[c].pc = "creatingReview"
  /\ callers' = [callers EXCEPT ![c] = [@ EXCEPT !.pc = "returned", !.ret = Resource]]
  /\ UNCHANGED <<mutexes, locks, tasks, calls, order, lastUpd, cmLast>>
  /\ UNCHANGED busVars
  /\ UNCHANGED lruVars

\* The create fails (CosmosDbError) or returns nothing (HttpError 500).
ReviewCreateFails(c, error) ==
  /\ callers[c].pc = "creatingReview"
  /\ callers' = [callers EXCEPT ![c] = [@ EXCEPT !.pc = "threw", !.error = rethrow(error)]]
  /\ UNCHANGED <<mutexes, locks, tasks, calls, order, lastUpd, cmLast>>
  /\ UNCHANGED busVars
  /\ UNCHANGED lruVars

NextCR ==
  \/ NextBM
  \/ \E c \in Tasks, t \in Tasks, key \in LockKeys, exists \in BOOLEAN :
        CreateReview(c, t, key, exists)
  \/ \E c \in Tasks : BookArrives(c)
  \/ \E c \in Tasks : ReviewCreated(c)
  \/ \E c \in Tasks, error \in {"CosmosDbError", "HttpError500"} : ReviewCreateFails(c, error)

SpecCR == InitCM /\ [][NextCR]_vars

\* ------------------------------------------------- CacheSubject calls
BusFrame ==
  /\ UNCHANGED <<mutexes, locks, tasks, calls, order, lastUpd, cmLast, callers>>
  /\ UNCHANGED rhVars
  /\ UNCHANGED lruVars

AddObserver(o) ==
  /\ Len(observers) < MaxRegistered
  /\ observers' = addObserver(observers, o)
  /\ busLast' = [NoNotify EXCEPT !.op = "addObserver", !.observer = o,
                                 !.before = observers, !.outcome = "returned"]
  /\ UNCHANGED behaviour
  /\ BusFrame

RemoveObserver(o) ==
  /\ observers' = removeObserver(observers, o)
  /\ busLast' = [NoNotify EXCEPT !.op = "removeObserver", !.observer = o,
                                 !.before = observers, !.outcome = "returned"]
  /\ UNCHANGED behaviour
  /\ BusFrame

Notify(op, key, data) ==
  /\ LET d == dispatch(observers, behaviour)
     IN  busLast' = [op |-> op, observer |-> NULL, key |-> key, data |-> data,
                     before |-> observers, called |-> d.called,
                     outcome |-> d.outcome, unhandled |-> d.unhandled]
  /\ UNCHANGED <<observers, behaviour>>
  /\ BusFrame

NotifyCacheUpdate(key, data) == Notify("notifyCacheUpdate", key, data)
NotifyCacheInvalidation(key) == Notify("notifyCacheInvalidation", key, NULL)

\* A CacheSubject with no observers yet; each observer behaves in one way.
InitSubject ==
  /\ cache = [k \in Keys |-> NULL]
  /\ nodes = [i \in NodeIds |-> FreeNode]
  /\ head = NULL
  /\ tail = NULL
  /\ script = <<>>
  /\ capacity = 1
  /\ pc = 1
  /\ last = NoCall
  /\ stamp = [k \in Keys |-> 0]
  /\ absVal = [k \in Keys |-> NULL]
  /\ callers = [c \in Tasks |-> IdleCaller]
  /\ mutexes = [k \in Keys |-> NULL]
  /\ locks = [m \in MutexIds |-> Mutex]
  /\ tasks = [t \in Tasks |-> IdleTask]
  /\ calls = 0
  /\ order = [k \in Keys |-> <<>>]
  /\ lastUpd = [k \in Keys |-> NULL]
  /\ cmLast = NoTask
  /\ observers = <<>>
  /\ behaviour \in [Observers -> Behaviours]
  /\ busLast = NoNotify
  /\ RHIdle

NextSubject ==
  \/ \E o \in Observers : AddObserver(o)
  \/ \E o \in Observers : RemoveObserver(o)
  \/ \E key \in LockKeys, data \in Values : NotifyCacheUpdate(key, data)
  \/ \E key \in LockKeys : NotifyCacheInvalidation(key)

SpecSubject == InitSubject /\ [][NextSubject]_vars

\* ------------------------------------------- RequestHandler.httpTrigger
RHFrame ==
  /\ UNCHANGED <<mutexes, locks, tasks, calls, order, lastUpd, cmLast, callers>>
  /\ UNCHANGED <<observers, behaviour, busLast>>
  /\ UNCHANGED lruVars

\* A next() that forgets index++.
startNext_noAdvance(q) ==
  IF q.index < NumMiddleware /\ Len(q.ran) < NumMiddleware
  THEN [q EXCEPT !.pc = "middleware", !.started = @ + 1,
                 !.ran = Append(@, q.index + 1),
                 !.earlyMiddleware = @ \/ q.received = 0]
  ELSE [q EXCEPT !.pc = "unwound"]

\* The body of next() without an error: the middleware at index, if any, is
\* started and index moves on; past the last one next() returns and every
\* pending `await middleware.run(...)` gets its result. ran lists the
\* positions of the middleware started so far.
startNext(q) ==
  IF q.index < NumMiddleware
  THEN [q EXCEPT !.pc = "middleware", !.index = @ + 1, !.started = @ + 1,
                 !.ran = Append(@, q.index + 1),
                 !.earlyMiddleware = @ \/ q.received = 0]
  ELSE [q EXCEPT !.pc = "unwound"]

\* httpTrigger up to its first suspension: addObserver(loggerObserver),
\* notifyRequestReceived, then next(). Invocations are numbered as they start.
Trigger(r) ==
  /\ req[r].pc = "idle"
  /\ \A q \in Requests : q < r => req[q].pc # "idle"
  /\ rhObservers' = addObserver(rhObservers, r)
  /\ heard' = tell(addObserver(rhObservers, r), heard, "received", r)
  /\ req' = [req EXCEPT ![r] = startNext([@ EXCEPT !.registered = TRUE, !.received = 1])]
  /\ RHFrame

\* The running middleware calls `await next()`.
MiddlewareCallsNext(r) ==
  /\ req[r].pc = "middleware"
  /\ req' = [req EXCEPT ![r] = startNext(@)]
  /\ UNCHANGED <<rhObservers, heard>>
  /\ RHFrame

\* The running middleware returns a response without calling next (as the
\* middleware made from an HttpHandler does when the handler returns).
MiddlewareResponds(r) ==
  /\ req[r].pc = "middleware"
  /\ req' = [req EXCEPT ![r] = [@ EXCEPT !.pc = "unwound", !.response = "middleware"]]
  /\ UNCHANGED <<rhObservers, heard>>
  /\ RHFrame

\* The running middleware throws: Middleware.run rethrows, `await next()`
\* rejects, and the catch block notifies and awaits errorHandler.run.
MiddlewareThrows(r) ==
  /\ req[r].pc = "middleware"
  /\ heard' = tell(rhObservers, heard, "error", r)
  /\ req' = [req EXCEPT ![r] = [@ EXCEPT !.pc = "handling", !.handler = "awaited",
                                         !.errors = @ + 1, !.via = "catch"]]
  /\ UNCHANGED rhObservers
  /\ RHFrame

\* The running middleware calls `await next(err)`: next notifies and awaits
\* errorHandler.run, with the middleware waiting for next.
MiddlewareAwaitsNextErr(r) ==
  /\ req[r].pc = "middleware"
  /\ heard' = tell(rhObservers, heard, "error", r)
  /\ req' = [req EXCEPT ![r] = [@ EXCEPT !.pc = "handling", !.handler = "awaited",
                                         !.errors = @ + 1, !.via = "next"]]
  /\ UNCHANGED rhObservers
  /\ RHFrame

\* The HttpHandler of a middleware made by use() throws: the catch calls
\* next(err) without await or return, so next notifies and starts
\* errorHandler.run while the middleware itself returns undefined.
HandlerThrows(r) ==
  /\ req[r].pc = "middleware"
  /\ heard' = tell(rhObservers, heard, "error", r)
  /\ req' = [req EXCEPT ![r] = [@ EXCEPT !.pc = "unwound", !.handler = "detached",
                                         !.errors = @ + 1, !.via = "next"]]
  /\ UNCHANGED rhObservers
  /\ RHFrame

\* A run without the try/catch around the callback: its failure rejects run.
runResult_noCatch(callbackFails) == IF callbackFails THEN "rejected" ELSE "errorHandler"

\* The response errorHandler.run resolves with: what the callback returned,
\* or the status-500 object of run's own catch when the callback failed.
runResult(callbackFails) == IF callbackFails THEN "fallback500" ELSE "errorHandler"

\* errorHandler.run finishes and `response = await this.errorHandler.run(...)`
\* assigns; an awaited run lets httpTrigger go on. Were run to reject, the
\* awaiting httpTrigger would reject with it, short of its last statements.
ErrorHandlerFinishes(r, callbackFails) ==
  /\ req[r].handler \in {"awaited", "detached"}
  /\ req' = [req EXCEPT ![r] =
       IF runResult(callbackFails) = "rejected"
       THEN [@ EXCEPT !.handler = "finished",
                      !.result = IF req[r].pc = "handling" THEN "rejected" ELSE @,
                      !.pc = IF @ = "handling" THEN "returned" ELSE @]
       ELSE [@ EXCEPT !.handler = "finished",
                      !.response = runResult(callbackFails),
                      !.pc = IF @ = "handling" THEN "unwound" ELSE @]]
  /\ UNCHANGED <<rhObservers, heard>>
  /\ RHFrame

\* The rest of httpTrigger: new HttpResponse(response), notifyResponseSent,
\* removeObserver(loggerObserver), return httpResponse.
Respond(r) ==
  /\ req[r].pc = "unwound"
  /\ heard' = tell(rhObservers, heard, "sent", r)
  /\ rhObservers' = removeObserver(rhObservers, r)
  /\ req' = [req EXCEPT ![r] = [@ EXCEPT !.pc = "returned", !.sent = @ + 1,
                                         !.result = req[r].response,
                                         !.registered = FALSE,
                                         !.sentWhileHandling = req[r].handler \in {"awaited", "detached"}]]
  /\ RHFrame

InitRH ==
  /\ InitCM
  /\ capacity = 1

NextRH ==
  \/ \E r \in Requests : Trigger(r)
  \/ \E r \in Requests : MiddlewareCallsNext(r)
  \/ \E r \in Requests : MiddlewareResponds(r)
  \/ \E r \in Requests : MiddlewareThrows(r)
  \/ \E r \in Requests : MiddlewareAwaitsNextErr(r)
  \/ \E r \in Requests : HandlerThrows(r)
  \/ \E r \in Requests, callbackFails \in BOOLEAN : ErrorHandlerFinishes(r, callbackFails)
  \/ \E r \in Requests : Respond(r)

SpecRH == InitRH /\ [][NextRH]_vars

TypeOK ==
  /\ capacity \in 1..MaxCapacity
  /\ cache \in [Keys -> NodeIds \cup {NULL}]
  /\ head \in NodeIds \cup {NULL}
  /\ tail \in NodeIds \cup {NULL}
  /\ \A i \in NodeIds : /\ nodes[i].prev \in NodeIds \cup {NULL}
                        /\ nodes[i].next \in NodeIds \cup {NULL}

\* ================================================================ claims

\* C1: with capacity >= 1, after every sequence of get/put/delete calls the
\* number of stored entries is at most the capacity, and the capacity never
\* changes after construction.
CapacityInvariant ==
  /\ [](capacity >= 1 => Size(Store) <= capacity /\ Len(Fwd(Store)) <= capacity)
  /\ [][capacity' = capacity]_vars

\* A put of a new key into a full store of capacity 2 has evicted an entry.
CapacityReached ==
  /\ capacity = 2
  /\ last.op = "put" /\ ~last.hit /\ last.evicted # NoKey
  /\ Size(Store) = capacity

\* C2: the Map and the linked list describe the same entries: no key twice
\* in the list, the list's keys are the Map's keys, the Map sends each key to
\* the list node of that key, the list is as long as the Map is large, the
\* walk by next from head is the reverse of the walk by prev from tail, and
\* head and tail are null exactly when the store is empty.
IndexListConsistent ==
  LET F == Fwd(Store)
      B == Bwd(Store)
  IN  /\ Len(F) = Size(Store)
      /\ F = Reverse(B)
      /\ \A i, j \in 1..Len(F) : i # j => nodes[F[i]].key # nodes[F[j]].key
      /\ {nodes[F[i]].key : i \in 1..Len(F)} = StoredKeys(Store)
      /\ \A k \in StoredKeys(Store) :
           /\ nodes[cache[k]].key = k
           /\ \E i \in 1..Len(F) : F[i] = cache[k]
      /\ (head = NULL) <=> (Size(Store) = 0)
      /\ (tail = NULL) <=> (Size(Store) = 0)

\* An entry has been deleted out of a store holding three.
DeletedFromThree ==
  /\ last.op = "delete" /\ last.hit
  /\ Size(Store) = 2
  /\ Len(Fwd(Store)) = 2

GetRefreshesRecency ==
  /\ (last.op = "get" /\ last.hit) =>
       /\ ListKeys(Store)[1] = last.key
       /\ stamp[last.key] = Cardinality(AbsStored(absVal))
       /\ Size(Store) >= 2 => nodes[tail].key # last.key
  /\ last.op = "put" => last.evicted = last.absEvicted
  /\ (script # <<>> /\ script \in ScenariosB) =>
       /\ pc = 6 => /\ last.evicted = script[2].key
                    /\ StoredKeys(Store) = {script[1].key, script[3].key, script[5].key}
       /\ pc = 7 => last.ret = 1
       /\ pc = 8 => last.ret = NULL /\ ~last.hit
       /\ pc = 9 => last.ret = 3
       /\ pc = 10 => last.ret = 4

\* Scenario B has run to its end.
ScenarioBDone ==
  /\ script \in ScenariosB
  /\ pc = 10
  /\ last.op = "get" /\ last.hit

\* C6: a put on a stored key replaces its value, moves it to the head,
\* leaves the size unchanged and evicts nothing, also at capacity; every
\* other entry keeps its value and its place relative to the others.
PutExistingUpdatesInPlace ==
  [][ (last'.op = "put" /\ last'.hit) =>
        /\ Entries(Store') = <<[key |-> last'.key, value |-> last'.value]>>
                               \o Without(Entries(Store), last'.key)
        /\ StoredKeys(Store') = StoredKeys(Store)
        /\ Size(Store') = Size(Store)
        /\ last'.evicted = NoKey ]_vars

\* A put has replaced the value of a stored key of a full store by another.
ReplacedAtCapacity ==
  /\ last.op = "put" /\ last.hit
  /\ last.old # NULL /\ last.old # last.value
  /\ Size(Store) = capacity /\ capacity >= 2
  /\ nodes[head].value = last.value

\* C7: a get on a stored key returns the value of the latest put of that key
\* and moves the entry to the head; the key set, the size, all values and
\* the relative order of the other entries are unchanged.
GetHitMovesToHead ==
  [][ (last'.op = "get" /\ last'.hit) =>
        /\ last'.ret = absVal[last'.key]
        /\ Entries(Store') = <<[key |-> last'.key, value |-> absVal[last'.key]]>>
                               \o Without(Entries(Store), last'.key)
        /\ Len(Entries(Store')) = Len(Entries(Store))
        /\ StoredKeys(Store') = StoredKeys(Store)
        /\ Size(Store') = Size(Store) ]_vars

\* A get has hit an entry of a store holding three and returned value 2.
HitAmongThree ==
  /\ last.op = "get" /\ last.hit /\ last.ret = 2
  /\ Size(Store) = 3
  /\ script = <<>>

\* C8: a get on an absent key returns null and leaves the Map, the nodes,
\* head and tail unchanged.
GetMissChangesNothing ==
  [][ (last'.op = "get" /\ ~last'.hit) =>
        /\ last'.ret = NULL
        /\ cache' = cache /\ nodes' = nodes /\ head' = head /\ tail' = tail ]_vars

\* A get has missed on a store that holds other keys.
MissedOnNonEmpty ==
  /\ last.op = "get" /\ ~last.hit /\ last.ret = NULL
  /\ cache[last.key] = NULL
  /\ Size(Store) >= 2

\* C9: put(k, v) immediately followed by get(k) returns v.
PutThenGetRoundTrip ==
  (last.op = "get" /\ last.after = "put") => (last.hit /\ last.ret = last.value)

\* A get has directly followed a put of the same key, with the store full.
GotRightAfterPut ==
  /\ last.op = "get" /\ last.after = "put" /\ last.ret = last.value
  /\ Size(Store) = capacity

\* C10: a delete of an absent key leaves the store unchanged; a delete of a
\* stored key removes that key from the Map and from the list and leaves the
\* other entries, their values and their relative order as they were; after
\* a delete the key is absent, so deleting it again changes nothing.
DeleteRemovesOnlyKey ==
  /\ [](last.op = "delete" => cache[last.key] = NULL)
  /\ [][ last'.op = "delete" =>
           IF last'.hit
           THEN /\ Entries(Store') = Without(Entries(Store), last'.key)
                /\ Len(Entries(Store')) = Len(Entries(Store)) - 1
                /\ cache' = [cache EXCEPT ![last'.key] = NULL]
           ELSE cache' = cache /\ nodes' = nodes /\ head' = head /\ tail' = tail ]_vars

\* A key has been deleted from among others and then deleted a second time.
DeletedTwice ==
  /\ last.op = "delete" /\ ~last.hit /\ last.after = "delete"
  /\ Size(Store) >= 2

\* C12: from an empty store of capacity c, putting c + 1 distinct keys
\* k1..k(c+1) in order with no get in between evicts exactly k1, on the last
\* put: afterwards get(k1) misses and get of each of k2..k(c+1) hits and
\* returns its value.
OverfillEvictsFirst ==
  (script # <<>> /\ script \in ScenariosA(capacity)) =>
    LET n == capacity + 1
        rest == {script[i].key : i \in 2..n}
    IN  /\ (pc >= 2 /\ pc <= n) => last.evicted = NoKey /\ Size(Store) = pc - 1
        /\ pc = n + 1 => last.evicted = script[1].key
        /\ pc >= n + 1 => StoredKeys(Store) = rest
        /\ pc = n + 2 => last.key = script[1].key /\ ~last.hit /\ last.ret = NULL
        /\ \A i \in 2..n :
             pc = n + 1 + i => last.key = script[i].key /\ last.hit /\ last.ret = i

\* Scenario A has run to its end with capacity 2.
ScenarioADone ==
  /\ capacity = 2
  /\ script \in ScenariosA(2)
  /\ pc = Len(script) + 1
  /\ last.ret = 3

\* C13: a put of an absent key into a store with fewer entries than its
\* capacity inserts the entry at the head, makes the size one larger and
\* removes no entry; an entry leaves the store without being deleted only in
\* a put of an absent key made when the size equals the capacity.
PutBelowCapacityOnlyAdds ==
  /\ [][ (last'.op = "put" /\ ~last'.hit /\ Size(Store) < capacity) =>
           /\ Entries(Store') = <<[key |-> last'.key, value |-> last'.value]>>
                                  \o Entries(Store)
           /\ Size(Store') = Size(Store) + 1
           /\ StoredKeys(Store') = StoredKeys(Store) \cup {last'.key}
           /\ last'.evicted = NoKey ]_vars
  /\ [][ (\E k \in StoredKeys(Store) \ StoredKeys(Store') :
             ~(last'.op = "delete" /\ last'.key = k)) =>
           (last'.op = "put" /\ ~last'.hit /\ Size(Store) = capacity) ]_vars

\* A put has added a third entry to a store of capacity 3 holding two.
GrewToThree ==
  /\ capacity = 3
  /\ last.op = "put" /\ ~last.hit /\ last.evicted = NoKey
  /\ Size(Store) = 3
  /\ script = <<>>

\* C11: a deleted key behaves as never inserted: from any store, after
\* put(x,10); delete(x) the key is in neither the Map nor the list and get(x)
\* misses; put(x,20) then inserts x as a new entry at the head and get(x)
\* returns 20.
DeletedKeyIsForgotten ==
  (script # <<>> /\ script \in ScenariosC) =>
    LET x == script[1].key
    IN  /\ pc = 2 => nodes[head].key = x /\ nodes[head].value = 10
        /\ (pc = 3 \/ pc = 4) =>
             /\ cache[x] = NULL
             /\ \A i \in 1..Len(ListKeys(Store)) : ListKeys(Store)[i] # x
        /\ pc = 3 => last.hit
        /\ pc = 4 => ~last.hit /\ last.ret = NULL
        /\ pc = 5 => /\ ~last.hit /\ last.old = NULL
                     /\ nodes[head].key = x /\ nodes[head].value = 20
        /\ pc = 6 => last.hit /\ last.ret = 20

\* Scenario C has run to its end on a full store of several entries.
ScenarioCDone ==
  /\ script \in ScenariosC
  /\ pc = 6
  /\ last.ret = 20
  /\ Size(Store) = capacity /\ capacity >= 2

\* C14: a store of capacity zero or less cannot be constructed, so every
\* store has capacity >= 1 and never more entries than its capacity.
NoStoreBelowCapacityOne ==
  capacity >= 1 /\ Size(Store) <= capacity


\* ------------------------------------------------- CacheManager claims
InFlight == {t \in Tasks : tasks[t].pc # "idle"}
Granted(key) == {t \in Pending(key) : tasks[t].pc = "granted"}
Waiting(key) == {t \in Pending(key) : tasks[t].pc = "waiting"}
Registered == {k \in Keys : mutexes[k] # NULL}
StoredValue(k) == IF cache[k] = NULL THEN NULL ELSE nodes[cache[k]].value

\* At most one operation per key is past its acquire(); every other pending
\* operation on the key is suspended behind one that holds the lock.
LockExclusive ==
  \A k \in Keys :
    /\ Cardinality(Granted(k)) <= 1
    /\ Waiting(k) # {} => Granted(k) # {}
    /\ Pending(k) # {} => mutexes[k] # NULL

\* A key gets its lock in the step that first calls an operation on it.
LockCreatedOnFirstUse ==
  \A k \in Keys :
    (mutexes[k] = NULL /\ mutexes'[k] # NULL) =>
      \E t \in Tasks : tasks[t].pc = "idle" /\ tasks'[t].pc # "idle" /\ tasks'[t].key = k

\* C15: for each key at most one of getCacheItem, updateCacheItem and
\* invalidateCacheItem holds the key's lock at any time; a second operation on
\* the key stays suspended until the lock is released; the key's lock is
\* created by the first operation that references the key.
PerKeyMutualExclusion == []LockExclusive /\ [][LockCreatedOnFirstUse]_vars

\* C15 witness: an operation waits for a key whose lock another one holds.
LockContended ==
  \E k \in LockKeys : Granted(k) # {} /\ Waiting(k) # {}

LocksAlwaysReleased ==
  /\ \A m \in MutexIds : locks[m].holder # NULL =>
        /\ tasks[locks[m].holder].pc = "granted"
        /\ tasks[locks[m].holder].mutex = m
  /\ InFlight = {} => \A m \in MutexIds : locks[m] = Mutex

\* C17 witness: the store call of the last operation threw, that operation
\* had been given its key's lock by a release, and nothing is in progress.
ThrewAndReleased ==
  /\ cmLast.task # NULL /\ cmLast.threw /\ cmLast.waited
  /\ InFlight = {}
  /\ mutexes[cmLast.key] # NULL

\* Every pending operation uses the lock the Map holds for its key, and
\* different keys have different locks.
SameLockPerKey ==
  /\ \A t \in InFlight : tasks[t].mutex = mutexes[tasks[t].key]
  /\ \A j, k \in Registered : mutexes[j] = mutexes[k] => j = k

\* Once a key has a lock, the Map keeps that lock for the key.
RegistryKeepsLocks ==
  \A k \in Keys : mutexes[k] # NULL => mutexes'[k] = mutexes[k]

\* C18: the registry holds one lock per key, every operation on a key uses
\* that same lock, and a key's lock stays in the registry for good, also
\* after the key is deleted or evicted from the store.
RegistryOneLockPerKeyForever == []SameLockPerKey /\ [][RegistryKeepsLocks]_vars

\* C18 witness: after an invalidateCacheItem the registry still has the
\* key's lock and holds more keys than the store's capacity.
RegistryOutgrowsStore ==
  /\ cmLast.op = "invalidate"
  /\ cmLast.key \in Registered /\ cache[cmLast.key] = NULL
  /\ Cardinality(Registered) > capacity

\* C20: with any interleaving of getCacheItem, updateCacheItem and
\* invalidateCacheItem over any keys, evicting puts included, the store has
\* between 0 and capacity entries and its index and list agree in every
\* state, so no operation resumes on a half-done structural change.
StoreSoundUnderInterleaving ==
  /\ Size(Store) \in 0..capacity
  /\ IndexListConsistent
  /\ \A t \in InFlight : tasks[t].pc = "granted" =>
        Len(Fwd(Store)) = Cardinality(StoredKeys(Store))

\* C20 witness: an update just evicted a key from a full store while
\* another operation is still in flight.
EvictedWhileOthersInFlight ==
  /\ cmLast.op = "update" /\ cmLast.evicted # NoKey
  /\ InFlight # {}
  /\ Size(Store) = capacity

\* C19: two calls of getReviewById for the same key never both have a read
\* of the container in progress.
NoDuplicateFetch ==
  \A k \in Keys :
    Cardinality({c \in Tasks : callers[c].pc = "reading" /\ callers[c].key = k}) <= 1

\* Task t finishes an updateCacheItem of an absent key on a full store.
EvictingUpdateBy(t) ==
  /\ tasks[t].pc = "granted" /\ tasks[t].op = "update"
  /\ tasks'[t].pc = "idle" /\ cmLast'.task = t /\ ~cmLast'.threw
  /\ cache[tasks[t].key] = NULL
  /\ tail # NULL /\ Size(Store) >= capacity

\* What the registry and the pending operations say about key k.
LockView(k) ==
  [mutex |-> mutexes[k],
   lock |-> IF mutexes[k] = NULL THEN Mutex ELSE locks[mutexes[k]],
   ops |-> [t \in Pending(k) |-> tasks[t]]]

\* C21: an updateCacheItem of an absent key A on a full store removes the
\* entry of the tail key B although only A's lock is held: B's lock, its
\* holder and its waiters are left as they were, and an operation holding
\* B's lock keeps finding B absent until it has run.
EvictionIgnoresVictimLock ==
  [][\A t \in Tasks :
       /\ EvictingUpdateBy(t) =>
            \A B \in Keys : B = nodes[tail].key =>
                /\ B # tasks[t].key
                /\ cache'[B] = NULL
                /\ cmLast'.evicted = B
                /\ LockView(B)' = LockView(B)
       /\ \A k \in Keys :
            (tasks[t].pc = "granted" /\ tasks[t].key = k /\ tasks[t].op # "update"
             /\ cache[k] = NULL)
            => /\ cache'[k] = NULL
               /\ tasks'[t].pc = "idle" => cmLast'.task = t /\ cmLast'.ret = NULL]_vars

\* C21 witness: an update has just evicted a key whose lock another
\* operation holds.
EvictedUnderHeldLock ==
  /\ cmLast.op = "update" /\ cmLast.evicted # NoKey
  /\ Granted(cmLast.evicted) # {}
  /\ cache[cmLast.evicted] = NULL

\* ------------------------------------------------- CacheSubject claims
Notified == busLast.op \in {"notifyCacheUpdate", "notifyCacheInvalidation"}
Count(sq, x) == Cardinality({i \in 1..Len(sq) : sq[i] = x})
Range(sq) == {sq[i] : i \in 1..Len(sq)}
\* The observers of a list without repetitions, in order of first entry.
RECURSIVE Distinct(_)
Distinct(sq) ==
  IF sq = <<>> THEN <<>>
  ELSE <<Head(sq)>> \o SelectSeq(Distinct(Tail(sq)), LAMBDA x : x # Head(sq))

\* C22 as stated: a notification that returns has called the method exactly
\* once on every registered observer, in registration order.
NotifyCallsEachObserverOnce ==
  (Notified /\ busLast.outcome = "returned") =>
    /\ \A o \in Range(busLast.before) : Count(busLast.called, o) = 1
    /\ busLast.called = Distinct(busLast.before)

\* C22: a notification that returns has called updateCacheItem (or
\* invalidateCacheItem) once for every entry of the observer list, in list
\* order, so an observer added n times is called n times; with an empty
\* list nothing is called; the list itself is left as it was.
NotifyCallsEveryRegistration ==
  (Notified /\ busLast.outcome = "returned") =>
    /\ busLast.called = busLast.before
    /\ observers = busLast.before
    /\ \A o \in Observers : Count(busLast.called, o) = Count(observers, o)

\* C22 witness: notifyCacheUpdate returned on a list of three entries with
\* two observers.
NotifiedThreeEntries ==
  /\ busLast.op = "notifyCacheUpdate" /\ busLast.outcome = "returned"
  /\ Len(busLast.before) = 3
  /\ Cardinality(Range(busLast.before)) = 2

\* C23: addObserver appends at the end; removeObserver takes out the first
\* entry of the given observer and keeps the others in order, and changes
\* nothing when the observer is not in the list; notifications go through
\* the list in its order.
ObserverListEdits ==
  LET b == busLast.before
      o == busLast.observer
  IN  /\ busLast.op = "addObserver" =>
           /\ Len(observers) = Len(b) + 1
           /\ observers[Len(observers)] = o
           /\ \A i \in 1..Len(b) : observers[i] = b[i]
      /\ (busLast.op = "removeObserver" /\ o \notin Range(b)) => observers = b
      /\ (busLast.op = "removeObserver" /\ o \in Range(b)) =>
           \E i \in 1..Len(b) :
             /\ b[i] = o /\ \A j \in 1..(i - 1) : b[j] # o
             /\ observers = [j \in 1..(Len(b) - 1) |-> IF j < i THEN b[j] ELSE b[j + 1]]
      /\ Notified =>
           \A i \in 1..Len(busLast.called) : busLast.called[i] = b[i]

\* C23 witness: an observer sitting between two entries of another one has
\* been removed.
RemovedFromMiddle ==
  /\ busLast.op = "removeObserver"
  /\ Len(busLast.before) = 3
  /\ busLast.before[2] = busLast.observer
  /\ busLast.before[1] # busLast.observer /\ busLast.before[3] # busLast.observer
  /\ Len(observers) = 2

\* C24: when the call of some observer fails during a notification, the
\* loop stops at the first failing observer and the notification fails.
FailFastDispatch ==
  LET b == busLast.before
      failing == {i \in 1..Len(b) : behaviour[b[i]] # "ok"}
  IN  (Notified /\ failing # {}) =>
        \E i \in failing :
          /\ \A j \in failing : i <= j
          /\ busLast.called = SubSeq(b, 1, i)
          /\ busLast.outcome = "threw"

\* ------------------------------------------------ ReviewManager claims
\* Caller c's container read returns a record in this step.
FetchedBy(c) == callers[c].pc = "reading" /\ callers'[c].pc = "returned"

\* C26: a getReviewById that hits returns the cached review without a
\* container read; one that misses reads the container once and, when the
\* record exists, publishes it as an updateCacheItem of the key; a call made
\* while the key is stored or published, with no eviction of the key since,
\* is a hit and reads nothing.
ReadThrough ==
  /\ [](\A c \in Tasks :
          /\ callers[c].reads <= 1
          /\ (callers[c].pc = "gotCache" /\ callers[c].expectHit) => callers[c].ret # NULL
          /\ (callers[c].pc = "returned" /\ callers[c].expectHit) =>
                callers[c].reads = 0 /\ callers[c].ret # NULL
          /\ callers[c].pc = "reading" => callers[c].reads = 1 /\ callers[c].ret = NULL
          /\ callers[c].pc = "returned" => callers[c].ret # NULL)
  /\ [][\A c \in Tasks :
           /\ (callers[c].pc = "gotCache" /\ callers[c].ret # NULL) =>
                callers'[c].reads = 0
           /\ FetchedBy(c) =>
                \E t \in Tasks :
                  /\ tasks[t].pc = "idle" /\ tasks'[t].pc # "idle"
                  /\ tasks'[t].op = "update" /\ tasks'[t].key = callers[c].key
                  /\ tasks'[t].value = callers'[c].ret]_vars

\* C26 witness: a call made after another call's read was published has
\* returned the review from the cache without reading the container.
LaterCallHit ==
  \E c, d \in Tasks :
    /\ c # d /\ callers[c].key = callers[d].key
    /\ callers[d].pc = "returned" /\ callers[d].reads = 1
    /\ callers[c].pc = "returned" /\ callers[c].reads = 0 /\ callers[c].expectHit

\* C27: a failure of the container read reaches the caller of getReviewById
\* unchanged, after exactly one read; the failing step publishes nothing and
\* leaves cache, locks and pending operations as they were, and no step of
\* a call that misses changes the store.
ReadFailurePropagates ==
  /\ [](\A c \in Tasks :
          (callers[c].pc = "threw" /\ callers[c].error # "HttpError404") =>
            /\ callers[c].error = "ReadError"
            /\ callers[c].reads = 1
            /\ callers[c].task = NULL)
  /\ [][\A c \in Tasks :
           /\ (callers[c].pc = "reading" /\ callers'[c].pc = "threw") =>
                /\ Store' = Store
                /\ <<mutexes, locks, tasks, calls, order>>' = <<mutexes, locks, tasks, calls, order>>
           /\ (callers[c].pc = "awaitCache" /\ callers'[c].pc = "gotCache"
               /\ callers'[c].ret = NULL) => Entries(Store)' = Entries(Store)]_vars

\* C27 witness: a call ended with the failure of its container read while
\* the cache holds an entry.
ReadFailureThrown ==
  \E c \in Tasks :
    /\ callers[c].pc = "threw" /\ callers[c].error = "ReadError"
    /\ Size(Store) > 0

\* -------------------------------------------------- BookManager claims
\* C25: a getBookById that finishes without throwing returns a book, the
\* cached one on a hit and the one read from the container on a miss.
GetBookByIdReturnsBook ==
  \A c \in Tasks : callers[c].pc = "returned" => callers[c].ret # NULL

\* C29: when Cosmos.create returns the book, createBook publishes it as an
\* updateCacheItem of its key, and when that update has run the key is the
\* head of the book cache with the created book as value; a create that
\* fails or returns nothing publishes nothing and changes nothing.
CreateBookPublishes ==
  /\ [][\A c \in Tasks :
           /\ (callers[c].pc = "creating" /\ callers'[c].pc = "returned") =>
                \E t \in Tasks :
                  /\ tasks[t].pc = "idle" /\ tasks'[t].pc # "idle"
                  /\ tasks'[t].op = "update" /\ tasks'[t].key = callers'[c].key
                  /\ tasks'[t].value = callers'[c].ret
           /\ (callers[c].pc = "creating" /\ callers'[c].pc = "threw") =>
                /\ Store' = Store
                /\ <<mutexes, locks, tasks, calls, order>>' = <<mutexes, locks, tasks, calls, order>>]_vars
  /\ []((cmLast.op = "update" /\ ~cmLast.threw) =>
          /\ head # NULL
          /\ nodes[head].key = cmLast.key
          /\ nodes[head].value = cmLast.value
          /\ cache[cmLast.key] = head)

\* C29 witness: the update published by a createBook has run on a cache
\* that held another book, and the created book is at the head.
CreatedBookCached ==
  \E c \in Tasks :
    /\ callers[c].pc = "returned" /\ callers[c].ret # NULL
    /\ cmLast.op = "update" /\ cmLast.key = callers[c].key /\ cmLast.value = callers[c].ret
    /\ Size(Store) = 2
    /\ nodes[head].value = callers[c].ret

\* C28: an operation is suspended only behind an operation on its own key:
\* one called on a key with nothing pending gets the lock at once, whatever
\* locks of other keys are held or waited for, and whoever waits has the
\* holder of its own key's lock in front of it.
LocksOfKeysIndependent ==
  /\ [](\A t \in Tasks : tasks[t].pc = "waiting" =>
          \E u \in Tasks \ {t} :
            /\ tasks[u].pc = "granted" /\ tasks[u].key = tasks[t].key
            /\ locks[tasks[t].mutex].holder = u)
  /\ [][\A t \in Tasks, k \in Keys :
           (tasks[t].pc = "idle" /\ tasks'[t].pc # "idle" /\ tasks'[t].key = k
            /\ Pending(k) = {})
           => tasks'[t].pc = "granted"]_vars

\* C28 witness: the update requested second has taken effect while the
\* update requested first, on another key, still holds its lock.
LaterRequestRanFirst ==
  /\ cmLast.op = "update" /\ cmLast.value = 2
  /\ \E t \in Tasks :
       /\ tasks[t].pc = "granted" /\ tasks[t].op = "update" /\ tasks[t].value = 1
       /\ tasks[t].key # cmLast.key

\* ------------------------------------------------ RequestHandler claims
\* C30: in every httpTrigger invocation the request-received notification
\* comes before any middleware runs, the response-sent notification is sent
\* once, only when the middleware chain and any error handling have
\* finished, and a returned invocation has removed its logger observer.
HttpTriggerLifecycle ==
  \A r \in Requests :
    /\ ~req[r].earlyMiddleware
    /\ req[r].started > 0 => req[r].received = 1
    /\ req[r].sent <= 1
    /\ req[r].pc = "returned" =>
         /\ req[r].sent = 1
         /\ ~req[r].registered
         /\ r \notin {rhObservers[i] : i \in 1..Len(rhObservers)}
    /\ req[r].sent = 1 => req[r].pc = "returned"
    /\ ~req[r].sentWhileHandling
\* C31: in one request the middleware started are the first ones of the
\* list, in list order and each once; a further middleware is started only
\* by a step in which the running one calls next() with no error so far;
\* a step that raises an error tells the request's observer of it and starts
\* the error handler, after which no middleware is started and the error
\* handler's result becomes the response.
MiddlewareChainOrder ==
  /\ [](\A r \in Requests :
          /\ req[r].ran = [i \in 1..Len(req[r].ran) |-> i]
          /\ Len(req[r].ran) <= NumMiddleware
          /\ req[r].errors <= 1
          /\ req[r].errors = 1 =>
                /\ <<"error", r>> \in heard[r]
                /\ req[r].handler # "none"
          /\ (req[r].handler = "finished" /\ req[r].pc # "returned") =>
                req[r].response \in {"errorHandler", "fallback500"})
  /\ [][\A r \in Requests :
           /\ req[r].ran # req'[r].ran =>
                /\ req[r].errors = 0 /\ req'[r].errors = 0
                /\ req[r].pc \in {"idle", "middleware"}
                /\ req'[r].ran = Append(req[r].ran, Len(req[r].ran) + 1)
           /\ req[r].errors = 1 => req'[r].ran = req[r].ran]_vars

\* C31 witness: the first middleware called next(), the second one passed
\* an error to next, and the error handler has produced the response.
SecondMiddlewareFailed ==
  \E r \in Requests :
    /\ req[r].ran = <<1, 2>> /\ req[r].errors = 1 /\ req[r].via = "next"
    /\ req[r].handler = "finished" /\ req[r].response = "errorHandler"

\* C32: httpTrigger never rejects: every failure of a middleware has the
\* error handler running or finished, a request waits only for an error
\* handler that is running, a failing error-handler callback makes run
\* resolve with the status-500 response, and what httpTrigger returns is the
\* HttpResponse built from the response variable.
HttpTriggerNeverThrows ==
  /\ [](\A r \in Requests :
          /\ req[r].result # "rejected"
          /\ req[r].errors > 0 => req[r].handler \in {"awaited", "detached", "finished"}
          /\ req[r].pc = "handling" => req[r].handler = "awaited"
          /\ req[r].pc = "returned" =>
                /\ req[r].sent = 1
                /\ req[r].result \in {"none", "middleware", "errorHandler", "fallback500"})
  /\ [][\A r \in Requests :
           /\ ErrorHandlerFinishes(r, TRUE) =>
                /\ req'[r].response = "fallback500"
                /\ req[r].pc = "handling" => req'[r].pc = "unwound"
           /\ (req[r].pc = "handling" /\ req'[r].pc = "returned") => FALSE]_vars

\* C32 witness: a middleware threw, the error handler's callback failed too,
\* and httpTrigger returned the status-500 response of run.
ReturnedFallback500 ==
  \E r \in Requests :
    /\ req[r].pc = "returned" /\ req[r].via = "catch"
    /\ req[r].result = "fallback500"

GetAfterNotifyReturnsUpdate ==
  [][\A t \in Tasks, k \in LockKeys :
       (/\ tasks[t].pc = "granted" /\ tasks[t].op = "get" /\ tasks[t].key = k
        /\ tasks'[t].pc = "idle") =>
         /\ Head(order[k]) = t
         /\ (/\ lastUpd[k] # NULL
             /\ \A u \in Pending(k) \ {t} : tasks[u].op = "get") =>
               cmLast'.ret = lastUpd[k]]_vars

\* C34 witness: the first call was an updateCacheItem, the second a
\* getCacheItem of the same key requested while the update had not run yet,
\* and the get has returned the update's value.
GetWaitedForPublishedUpdate ==
  /\ calls = 2
  /\ cmLast.op = "get" /\ cmLast.waited
  /\ cmLast.ret = 1
  /\ InFlight = {}

\* C35: once a removeReview has completed, the cache does not hold the
\* review's key.
RemovedReviewStaysOutOfCache ==
  \A c \in Tasks :
    (callers[c].removing /\ callers[c].pc = "removed") => cache[callers[c].key] = NULL

\* C36: a createReview fails with the 404 'Book not found' only when the
\* container does not hold the book, so that it creates the review whenever
\* the book exists, cached or not.
CreateReviewNeedsOnlyTheBook ==
  \A c \in Tasks :
    (callers[c].pc = "threw" /\ callers[c].error = "HttpError404:Book not found") =>
      ~callers[c].sawRecord

\* C37: when a middleware has failed, and so when the HttpHandler registered
\* with use has thrown, the response that httpTrigger returns is the one
\* errorHandler.run produced, and the response-sent notification and the
\* removal of the observer come after the end of errorHandler.run.
HandlerErrorAnsweredByErrorHandler ==
  \A r \in Requests :
    (req[r].errors = 1 /\ req[r].pc = "returned") =>
      /\ req[r].result \in {"errorHandler", "fallback500"}
      /\ ~req[r].sentWhileHandling
\* C38: the logger observer that an httpTrigger invocation registered is
\* told of the events of that invocation's request only.
ObserverHearsOwnRequestOnly ==
  \A o \in Requests : \A e \in heard[o] : e[2] = o

====
